---- MODULE Spec2Model ----
(***************************************************************************)
(* A model of the hagAI Asana agent: the rate-limited AsanaClient          *)
(* (asana-client.ts), and the tools that call it.                          *)
(*                                                                         *)
(* Time is the value of Date.now(), counted in clock ticks; Window ticks   *)
(* stand for the 60000 ms of the source.  Callers are the logical chains   *)
(* (tool invocations) that run on the single event loop: every action is   *)
(* one run-to-completion stretch of code between two awaits.               *)
(***************************************************************************)
EXTENDS Integers, Sequences, FiniteSets, TLC

\* ---------------------------------------------------------------- bounds
\* The ceiling of the rate window: `this.requestCount >= 100` in the source,
\* scaled down so that the ceiling is reached within the bounds.
Ceiling == 2
\* The length of the rate window in clock ticks (60000 ms in the source).
Window == 3
\* The clock stops at MaxTime.
MaxTime == 5
\* The number of concurrent callers and the number of client calls of a run.
NumCallers == 2
MaxCalls == 5
\* The most items (tasks, sections) the loop of a tool goes through.
MaxItems == 2
\* The most tasks a fetch hands to the local computation of a tool.
MaxTasks == 2
\* The instants of one calendar day, and the days the instants span.
DayLen == 2
Days == 3
\* The days of one calendar month.
MonthLen == 2
\* The most entries of the change history of a task.
MaxStories == 2
\* The most characters of a project name, and the most projects of a
\* workspace.
MaxName == 2
MaxProjects == 2

Callers == 1..NumCallers
\* The caller of the runs in which every call is awaited before the next.
Main == 1

\* ------------------------------------------------------------ the client
\* The public fetch operations of AsanaClient.
Methods ==
  {"getTasks", "getTask", "getTaskStories", "getProjectSections",
   "getSectionTasks", "getWorkspaceUsers", "getMe", "searchUsers",
   "getWorkspaceProjects", "findProjectByName"}

\* The method a wrapper method awaits instead of calling the vendor itself.
Delegate(m) ==
  CASE m = "searchUsers" -> "getWorkspaceUsers"
    [] m = "findProjectByName" -> "getWorkspaceProjects"
    [] OTHER -> "none"

\* Wrappers that run a rate-limiter check of their own before they delegate.
OwnRateCheckAll(m) == TRUE

\* Whether the body of m starts with `await this.checkRateLimit()`.
OwnRateCheck(m) == m \notin {"searchUsers", "findProjectByName"}

\* The vendor SDK call a fetch method issues.
VendorCall(m) ==
  CASE m = "getTasks" -> "TasksApi.getTasks"
    [] m = "getTask" -> "TasksApi.getTask"
    [] m = "getTaskStories" -> "StoriesApi.getStoriesForTask"
    [] m = "getProjectSections" -> "SectionsApi.getSectionsForProject"
    [] m = "getSectionTasks" -> "TasksApi.getTasksForSection"
    [] m = "getWorkspaceUsers" -> "UsersApi.getUsersForWorkspace"
    [] m = "getMe" -> "UsersApi.getUser"
    [] m = "getWorkspaceProjects" -> "ProjectsApi.getProjects"
    [] OTHER -> "none"

\* The text each fetch method puts in front of the vendor's error.
ErrorPrefix(m) ==
  CASE m = "getTasks" -> "Failed to fetch tasks: "
    [] m = "getTask" -> "Failed to fetch task: "
    [] m = "getTaskStories" -> "Failed to fetch task stories: "
    [] m = "getProjectSections" -> "Failed to fetch project sections: "
    [] m = "getSectionTasks" -> "Failed to fetch section tasks: "
    [] m = "getWorkspaceUsers" -> "Failed to fetch workspace users: "
    [] m = "getMe" -> "Failed to fetch current user: "
    [] m = "getWorkspaceProjects" -> "Failed to fetch workspace projects: "
    [] OTHER -> "none"

\* What the vendor SDK can throw: an error with a message, and one without
\* (message is the empty string, text is what `${error}` renders).
VendorErrors ==
  {[message |-> "Unauthorized", text |-> "Error: Unauthorized"],
   [message |-> "", text |-> "Error"]}

\* `error.message || error` inside a template string.
ErrorText(e) == IF e.message # "" THEN e.message ELSE e.text

\* A catch that logs the error and returns an empty result.
FetchErrorSwallowed(m, e) == [kind |-> "ok", message |-> <<>>]

\* `throw new Error(`Failed to fetch ...: ${error.message || error}`)`.
FetchError(m, e) ==
  [kind |-> "error", message |-> <<ErrorPrefix(m), ErrorText(e)>>]

\* `return response.data`.
FetchOk(m) == [kind |-> "ok", message |-> <<VendorCall(m)>>]

\* execute has not settled yet.
\* No tool has been handed data to compute on, none has computed.
NoGiven == [tool |-> "none"]
NoAnswer == [tool |-> "none"]

\* What execute gives back: the kind of outcome, the shape of the value, the
\* fields of the object when it is one, and what the awaited call that
\* decided the outcome had answered.
Outcome(k, s, ks, why) == [kind |-> k, shape |-> s, keys |-> ks, cause |-> why]

NoOut == Outcome("none", "none", {}, "none")

NoResult == [kind |-> "none", message |-> <<>>]
NoError == [message |-> "none", text |-> "none"]

\* --------------------------------------------------- the rate limiter
\* `if (now > this.resetTime)`.
Rollover(n, rt) == n > rt

\* A rollover that sets the new reset timestamp and keeps the old count.
RolledCountKept(n, cnt, rt) == cnt

\* A rollover that opens a window of twice the length.
RolledResetTwice(n, rt) == IF Rollover(n, rt) THEN n + Window + Window ELSE rt

\* requestCount and resetTime after the rollover test of checkRateLimit.
RolledCount(n, cnt, rt) == IF Rollover(n, rt) THEN 0 ELSE cnt
RolledReset(n, rt) == IF Rollover(n, rt) THEN n + Window ELSE rt

\* `if (this.requestCount >= 100)`.
AtCeiling(cnt) == cnt >= Ceiling

\* A wait that ends one tick before the reset timestamp.
WaitTimeShort(n, rt) == rt - n - 1

\* `const waitTime = this.resetTime - now`.
WaitTime(n, rt) == rt - n

\* The caller awaits the timer: the ceiling is reached and waitTime > 0.
MustWait(n, cnt, rt) == AtCeiling(cnt) /\ WaitTime(n, rt) > 0

\* The AsanaClient objects of a process that constructs two, and the access
\* tokens they are constructed with.
Clients == {"first", "second"}
Tokens == {"tokenA", "tokenB"}

\* An AsanaClient that is not constructed yet: its fields, and as history
\* the token its constructor was given, where its code is, when its timer
\* is due and the token the vendor SDK sent with its last call.
NoInstance ==
  [built |-> FALSE, accessToken |-> "none", requestCount |-> 0,
   resetTime |-> 0, at |-> "idle", deadline |-> 0, sentWith |-> "none"]

VARIABLES
  now,           \* Date.now()
  requestCount,  \* AsanaClient.requestCount
  resetTime,     \* AsanaClient.resetTime
  pc,            \* where each caller is in its client method
  frames,        \* the client methods each caller is inside, outermost first
  deadline,      \* when the setTimeout of a suspended caller is due
  vendorErr,     \* what the vendor SDK call of the caller threw (history)
  result,        \* what the caller's client method returned or threw
  chk,           \* the caller's rate-limiter check in progress (history)
  checks,        \* rate-limiter checks completed in the caller's invocation
  vendorCalls,   \* vendor SDK calls issued in the caller's invocation
  issued,        \* the times at which vendor calls were issued (history)
  started,       \* client method invocations so far
  tool,          \* the tool whose execute runs on the caller
  tstep,         \* the number of the awaited call the tool is at
  items,         \* the items the loop of the tool has still to fetch
  toolOut,       \* what execute returned or threw
  total,         \* the items the loop of the tool goes through (history)
  failures,      \* the fetches of the loop that threw (history)
  given,         \* what the local computation of a tool works on
  answer,        \* what the local computation of a tool made of it
  instances,     \* the AsanaClient objects constructed beside each other
  apiClient,     \* Asana.ApiClient.instance, the one object of the vendor SDK
  acting         \* the AsanaClient object whose code ran last (history)

toolVars == <<tool, tstep, items, toolOut, total, failures, given, answer>>

fleetVars == <<instances, apiClient, acting>>

vars ==
  <<now, requestCount, resetTime, pc, frames, deadline, vendorErr, result,
    chk, checks, vendorCalls, issued, started, tool, tstep, items, toolOut,
    total, failures, given, answer, instances, apiClient, acting>>

\* The history of one run of checkRateLimit: the path it took, requestCount
\* when it was called and when it completed, and resetTime after its
\* rollover test.
NoCheck == [path |-> "none", countBefore |-> 0, resetAtEntry |-> 0,
            countAfter |-> 0]

Top(c) == frames[c][Len(frames[c])]

\* The issue times that still share an interval of Window ticks with time t.
Recent(log, t) == SelectSeq(log, LAMBDA x : x > t - Window)

Init ==
  /\ now = 0
  /\ requestCount = 0
  /\ resetTime = now + Window
  /\ pc = [c \in Callers |-> "idle"]
  /\ frames = [c \in Callers |-> <<>>]
  /\ deadline = [c \in Callers |-> 0]
  /\ vendorErr = [c \in Callers |-> NoError]
  /\ result = [c \in Callers |-> NoResult]
  /\ chk = [c \in Callers |-> NoCheck]
  /\ checks = [c \in Callers |-> 0]
  /\ vendorCalls = [c \in Callers |-> 0]
  /\ issued = <<>>
  /\ started = 0
  /\ tool = [c \in Callers |-> "none"]
  /\ tstep = [c \in Callers |-> 0]
  /\ items = [c \in Callers |-> 0]
  /\ toolOut = [c \in Callers |-> NoOut]
  /\ total = [c \in Callers |-> 0]
  /\ failures = [c \in Callers |-> 0]
  /\ given = NoGiven
  /\ answer = NoAnswer
  /\ instances = [k \in Clients |-> NoInstance]
  /\ apiClient = [accessToken |-> "none"]
  /\ acting = "none"

\* The clock advances.  A tick is a third of the window: the stretches of a
\* client method that follow each other without awaiting a timer or the
\* network (the microtasks up to the vendor call) run within one tick.
Tick ==
  /\ now < MaxTime
  /\ \A c \in Callers : pc[c] \notin {"entered", "body"}
  /\ now' = now + 1
  /\ issued' = Recent(issued, now + 1)
  /\ UNCHANGED <<requestCount, resetTime, pc, frames, deadline, vendorErr, result, chk,
                 checks, vendorCalls, started>>
  /\ UNCHANGED <<toolVars, fleetVars>>

\* A caller invokes the client method m.
Call(c, m) ==
  /\ pc[c] = "idle"
  /\ started < MaxCalls
  /\ pc' = [pc EXCEPT ![c] = "entered"]
  /\ frames' = [frames EXCEPT ![c] = <<m>>]
  /\ started' = started + 1
  /\ UNCHANGED <<now, requestCount, resetTime, deadline, vendorErr, result, chk, checks,
                 vendorCalls, issued>>
  /\ UNCHANGED <<toolVars, fleetVars>>

\* checkRateLimit up to its await, or to its end when it does not wait.
CheckRateLimit(c) ==
  LET cnt == RolledCount(now, requestCount, resetTime)
      rt == RolledReset(now, resetTime)
      entry == [NoCheck EXCEPT !.countBefore = requestCount,
                               !.resetAtEntry = rt]
  IN  IF MustWait(now, cnt, rt)
      THEN /\ requestCount' = cnt
           /\ resetTime' = rt
           /\ deadline' = [deadline EXCEPT ![c] = now + WaitTime(now, rt)]
           /\ pc' = [pc EXCEPT ![c] = "suspended"]
           /\ chk' = [chk EXCEPT ![c] = [entry EXCEPT !.path = "wait"]]
           /\ UNCHANGED checks
      ELSE /\ requestCount' = cnt + 1
           /\ resetTime' = rt
           /\ pc' = [pc EXCEPT ![c] = "body"]
           /\ chk' = [chk EXCEPT ![c] =
                 [entry EXCEPT !.path = IF Rollover(now, resetTime)
                                        THEN "rollover" ELSE "plain",
                               !.countAfter = cnt + 1]]
           /\ checks' = [checks EXCEPT ![c] = @ + 1]
           /\ UNCHANGED deadline

\* The first stretch of a client method: its rate-limiter check, if it has one.
Enter(c) ==
  /\ pc[c] = "entered"
  /\ IF OwnRateCheck(Top(c))
     THEN CheckRateLimit(c)
     ELSE /\ pc' = [pc EXCEPT ![c] = "body"]
          /\ UNCHANGED <<requestCount, resetTime, deadline, chk, checks>>
  /\ UNCHANGED <<now, frames, vendorErr, result, vendorCalls, issued, started>>
  /\ UNCHANGED <<toolVars, fleetVars>>

\* A reset after the wait that returns without counting the call.
ResumedCountNoIncrement == 0 + 0

\* A limiter that stays suspended until the count is below the ceiling.
TimerDueBelowCeiling(c) == now >= deadline[c] /\ requestCount < Ceiling

\* The timer set by `setTimeout(resolve, waitTime)` has run out.
TimerDue(c) == now >= deadline[c]

\* requestCount after the lines that follow the await of checkRateLimit.
ResumedCount == 0 + 1

\* The timer of a suspended caller fires and checkRateLimit runs to its end.
Resume(c) ==
  /\ pc[c] = "suspended"
  /\ TimerDue(c)
  /\ requestCount' = ResumedCount
  /\ resetTime' = now + Window
  /\ pc' = [pc EXCEPT ![c] = "body"]
  /\ chk' = [chk EXCEPT ![c].countAfter = ResumedCount]
  /\ checks' = [checks EXCEPT ![c] = @ + 1]
  /\ UNCHANGED <<now, frames, deadline, vendorErr, result, vendorCalls, issued, started>>
  /\ UNCHANGED <<toolVars, fleetVars>>

\* A wrapper method awaits the method it delegates to.
Descend(c) ==
  /\ pc[c] = "body"
  /\ Delegate(Top(c)) # "none"
  /\ frames' = [frames EXCEPT ![c] = Append(@, Delegate(Top(c)))]
  /\ pc' = [pc EXCEPT ![c] = "entered"]
  /\ UNCHANGED <<now, requestCount, resetTime, deadline, vendorErr, result, chk, checks,
                 vendorCalls, issued, started>>
  /\ UNCHANGED <<toolVars, fleetVars>>

\* A fetch method issues its vendor SDK call.
IssueVendor(c) ==
  /\ pc[c] = "body"
  /\ Delegate(Top(c)) = "none"
  /\ pc' = [pc EXCEPT ![c] = "vendor"]
  /\ vendorCalls' = [vendorCalls EXCEPT ![c] = @ + 1]
  /\ issued' = Append(issued, now)
  /\ chk' = [chk EXCEPT ![c] = NoCheck]
  /\ deadline' = [deadline EXCEPT ![c] = 0]
  /\ UNCHANGED <<now, requestCount, resetTime, frames, vendorErr, result,
                 checks, started>>
  /\ UNCHANGED <<toolVars, fleetVars>>

\* The vendor call returns its data: the fetch method and its wrappers return.
VendorOk(c) ==
  /\ pc[c] = "vendor"
  /\ pc' = [pc EXCEPT ![c] = "returned"]
  /\ result' = [result EXCEPT ![c] = FetchOk(Top(c))]
  /\ UNCHANGED <<now, requestCount, resetTime, frames, deadline, vendorErr,
                 chk, checks, vendorCalls, issued, started>>
  /\ UNCHANGED <<toolVars, fleetVars>>

\* The vendor call throws e: the catch of the fetch method throws the wrapped
\* error, which no wrapper catches.
VendorFail(c, e) ==
  /\ pc[c] = "vendor"
  /\ pc' = [pc EXCEPT ![c] = "returned"]
  /\ vendorErr' = [vendorErr EXCEPT ![c] = e]
  /\ result' = [result EXCEPT ![c] = FetchError(Top(c), e)]
  /\ UNCHANGED <<now, requestCount, resetTime, frames, deadline, chk, checks,
                 vendorCalls, issued, started>>
  /\ UNCHANGED <<toolVars, fleetVars>>

\* The client method hands its outcome to the caller that awaited it.
Settle(c) ==
  /\ pc[c] = "returned"
  /\ pc' = [pc EXCEPT ![c] = "idle"]
  /\ frames' = [frames EXCEPT ![c] = <<>>]
  /\ vendorErr' = [vendorErr EXCEPT ![c] = NoError]
  /\ result' = [result EXCEPT ![c] = NoResult]
  /\ checks' = [checks EXCEPT ![c] = 0]
  /\ vendorCalls' = [vendorCalls EXCEPT ![c] = 0]
  /\ UNCHANGED <<now, requestCount, resetTime, deadline, chk, issued, started>>

\* A caller that calls the client itself takes the outcome and is free for its
\* next call.
Finish(c) ==
  /\ Settle(c)
  /\ UNCHANGED <<toolVars, fleetVars>>

\* One step of caller c inside a client method.
InClient(c) ==
  \/ Enter(c)
  \/ Resume(c)
  \/ Descend(c)
  \/ IssueVendor(c)
  \/ VendorOk(c)
  \/ \E e \in VendorErrors : VendorFail(c, e)

\* One step of a caller that calls the client itself.
Step(c) == InClient(c) \/ Finish(c)

\* One caller that awaits each client method before it calls the next.
Next ==
  \/ Tick
  \/ \E m \in Methods : Call(Main, m)
  \/ Step(Main)

Spec == Init /\ [][Next]_vars

\* Several callers inside the client at once.  checkRateLimit reads nothing of
\* the method that calls it, so one method stands for the ten: a wrapper,
\* which runs through its own stretch and those of the fetch method it awaits.
ConcMethods == {"findProjectByName"}

ConcNext ==
  \/ Tick
  \/ \E c \in Callers, m \in ConcMethods : Call(c, m)
  \/ \E c \in Callers : Step(c)

ConcSpec == Init /\ [][ConcNext]_vars

\* The same callers under the scheduling of the event loop: the clock
\* advances, a timer that is due fires, and the stretches of a method that no
\* timer and no network holds up do run.  Nothing is assumed of the vendor.
\* A call enters only while the clock can still reach the end of its window.
FairCall(c, m) == now + Window <= MaxTime /\ Call(c, m)

FairNext ==
  \/ Tick
  \/ \E c \in Callers, m \in ConcMethods : FairCall(c, m)
  \/ \E c \in Callers : Step(c)

FairSpec ==
  /\ Init
  /\ [][FairNext]_vars
  /\ WF_vars(Tick)
  /\ \A c \in Callers :
       /\ WF_vars(Enter(c))
       /\ WF_vars(Resume(c))
       /\ WF_vars(Descend(c))
       /\ WF_vars(IssueVendor(c))

\* ------------------------------------------------- several clients
\* One rate window for the whole process.
LimiterOfProcess(k) == "first"

\* The object that holds the requestCount and resetTime a client counts
\* with: `this`.
LimiterOf(k) == k

\* The requestCount and resetTime client k reads.
RequestCountOf(k) == instances[LimiterOf(k)].requestCount
ResetTimeOf(k) == instances[LimiterOf(k)].resetTime

\* instances with the requestCount and resetTime of client k set.
WithLimiter(inst, k, cnt, rt) ==
  [inst EXCEPT ![LimiterOf(k)].requestCount = cnt,
               ![LimiterOf(k)].resetTime = rt]

\* `new AsanaClient(accessToken, workspaceGid)`: the field initialisers and
\* the constructor, which takes the ApiClient of the vendor SDK and sets its
\* token.
Construct(k, token) ==
  /\ ~instances[k].built
  /\ instances' =
       WithLimiter([instances EXCEPT ![k].built = TRUE,
                                     ![k].accessToken = token],
                   k, 0, now + Window)
  /\ apiClient' = [accessToken |-> token]
  /\ acting' = k

\* A fetch method of client k is called: checkRateLimit up to its await, or
\* to its end when it does not wait.
ClientCall(k) ==
  LET cnt == RolledCount(now, RequestCountOf(k), ResetTimeOf(k))
      rt == RolledReset(now, ResetTimeOf(k))
      wait == MustWait(now, cnt, rt)
  IN  /\ instances[k].built
      /\ instances[k].at = "idle"
      /\ started < MaxCalls
      /\ started' = started + 1
      /\ instances' =
           WithLimiter(
             [instances EXCEPT
                ![k].at = IF wait THEN "suspended" ELSE "body",
                ![k].deadline = IF wait THEN now + WaitTime(now, rt) ELSE 0],
             k, IF wait THEN cnt ELSE cnt + 1, rt)
      /\ acting' = k
      /\ UNCHANGED apiClient

\* The timer of client k fires and checkRateLimit runs to its end.
ClientResume(k) ==
  /\ instances[k].at = "suspended"
  /\ now >= instances[k].deadline
  /\ instances' =
       WithLimiter([instances EXCEPT ![k].at = "body", ![k].deadline = 0],
                   k, ResumedCount, now + Window)
  /\ acting' = k
  /\ UNCHANGED <<apiClient, started>>

\* The fetch method of client k makes its vendor call, `new Asana.TasksApi()`
\* and `tasksApi.getTasks(...)`, which the vendor SDK sends with the token of
\* its ApiClient, and returns.
ClientVendor(k) ==
  /\ instances[k].at = "body"
  /\ instances' = [instances EXCEPT ![k].at = "idle",
                                    ![k].sentWith = apiClient.accessToken]
  /\ acting' = k
  /\ UNCHANGED <<apiClient, started>>

\* One step of the code of client k.
ClientStep(k) ==
  /\ \/ \E token \in Tokens : Construct(k, token) /\ UNCHANGED started
     \/ ClientCall(k)
     \/ ClientResume(k)
     \/ ClientVendor(k)
  /\ UNCHANGED <<now, requestCount, resetTime, pc, frames, deadline, vendorErr,
                 result, chk, checks, vendorCalls, issued>>
  /\ UNCHANGED toolVars

\* The clock advances while no client is between its check and its vendor
\* call.
ClientTick ==
  /\ \A k \in Clients : instances[k].at # "body"
  /\ Tick

\* Two clients of one process, constructed at any time and called in any
\* order.
ClientsNext ==
  \/ ClientTick
  \/ \E k \in Clients : ClientStep(k)

ClientsSpec == Init /\ [][ClientsNext]_vars

\* -------------------------------------------------------------- the tools
\* The tools createHagaiAgent registers that call the AsanaClient.
AsanaTools ==
  {"get_tasks_completed_today", "get_tasks_updated_today",
   "get_tasks_due_today", "get_weekly_planned_tasks", "get_team_workload",
   "get_overdue_tasks_by_person", "get_project_status",
   "get_section_with_most_work", "list_all_projects",
   "get_task_due_date_changes", "get_most_postponed_tasks",
   "get_recent_due_date_changes", "get_overdue_tasks", "get_unassigned_tasks",
   "get_tasks_without_due_dates", "search_tasks_by_name",
   "get_workspace_users", "get_me", "search_users", "get_tasks_assigned_to"}

\* The tools it registers that call the SupabaseClient.
CalendarTools ==
  {"get_next_meeting", "get_todays_meetings", "search_meetings",
   "get_meetings_for_attendee"}

Tools == AsanaTools \cup CalendarTools

\* The client methods execute awaits one after another before any loop.
Prelude(t) ==
  CASE t \in {"get_project_status", "get_section_with_most_work"}
         -> <<"findProjectByName", "getProjectSections">>
    [] t = "list_all_projects" -> <<"getWorkspaceProjects">>
    [] t = "get_task_due_date_changes" -> <<"getTask", "getTaskStories">>
    [] t = "get_workspace_users" -> <<"getWorkspaceUsers">>
    [] t = "get_me" -> <<"getMe">>
    [] t = "search_users" -> <<"searchUsers">>
    [] OTHER -> <<"getTasks">>

\* The client method execute awaits once per item of its loop.
LoopMethod(t) ==
  CASE t \in {"get_project_status", "get_section_with_most_work"}
         -> "getSectionTasks"
    [] t \in {"get_most_postponed_tasks", "get_recent_due_date_changes"}
         -> "getTaskStories"
    [] OTHER -> "none"

\* A loop whose body has no try of its own.
LoopCatchesNothing(t) == FALSE

\* Whether the body of the loop is a try whose catch logs and goes on.
LoopCatches(t) ==
  t \in {"get_most_postponed_tasks", "get_recent_due_date_changes"}

\* An execute without a try of its own.
CatchesNothing(t) == FALSE

\* Whether the body of execute is a try with a catch that returns an envelope.
Catches(t) == t \in AsanaTools

\* The fields of the object the catch of execute returns.
ErrorKeys(t) ==
  CASE t \in {"get_project_status", "get_section_with_most_work", "get_me"}
         -> {"error"}
    [] t \in {"get_most_postponed_tasks", "get_recent_due_date_changes"}
         -> {"error", "tasks"}
    [] t = "get_task_due_date_changes" -> {"error", "changeCount", "changes"}
    [] t = "get_team_workload" -> {"error", "teamMembers", "workload"}
    [] t = "get_overdue_tasks_by_person"
         -> {"error", "totalOverdue", "byPerson"}
    [] t = "list_all_projects" -> {"error", "count", "projects"}
    [] t \in {"get_workspace_users", "search_users"}
         -> {"error", "count", "users"}
    [] OTHER -> {"error", "count", "tasks"}

\* The fields of the object execute returns when the project is not found.
NotFoundKeys(t) ==
  IF t = "get_project_status" THEN {"error", "suggestions"} ELSE {"error"}

\* The SupabaseClient methods a calendar tool awaits one after another.
StoreCalls(t) ==
  CASE t = "get_next_meeting" -> <<"getNextMeeting">>
    [] t = "get_todays_meetings" -> <<"getMeetingsForDate">>
    [] t = "search_meetings" -> <<"searchMeetings">>
    [] t = "get_meetings_for_attendee"
         -> <<"findUserByName", "getMeetingsForUser">>
    [] OTHER -> <<>>

\* What the store answers: rows, no row (the error code PGRST116 of a
\* .single() query, an empty list otherwise), or another error.
StoreOutcomes == {"rows", "norows", "failure"}

\* What a SupabaseClient method makes of the answer.
StoreResult(m, o) ==
  CASE o = "rows" -> "data"
    [] o = "norows" -> IF m \in {"getNextMeeting", "findUserByName"}
                       THEN "null" ELSE "empty"
    [] OTHER -> IF m = "findUserByName" THEN "null" ELSE "throw"

\* The fields of the object execute returns with its results.
SuccessKeys(t) ==
  CASE t \in {"get_tasks_completed_today", "get_tasks_updated_today",
              "get_tasks_due_today"} -> {"message", "count", "tasks", "date"}
    [] t = "get_weekly_planned_tasks"
         -> {"message", "count", "weekStart", "weekEnd", "tasksByDay"}
    [] t = "get_team_workload"
         -> {"message", "teamMembers", "totalTasks", "workload"}
    [] t = "get_overdue_tasks_by_person"
         -> {"message", "totalOverdue", "byPerson"}
    [] t = "get_project_status"
         -> {"message", "projectName", "projectGid", "totalTasks",
             "completedTasks", "incompleteTasks", "completionRate",
             "sectionCount", "sections"}
    [] t = "get_section_with_most_work"
         -> {"message", "projectName", "busiestSection", "incompleteTasks",
             "allSections"}
    [] t = "list_all_projects" -> {"message", "count", "projects"}
    [] t = "get_task_due_date_changes"
         -> {"message", "taskName", "taskGid", "currentDueDate",
             "changeCount", "changes"}
    [] t = "get_most_postponed_tasks"
         -> {"message", "totalTasksWithChanges", "tasks"}
    [] t = "search_tasks_by_name"
         -> {"message", "count", "searchQuery", "tasks"}
    [] t \in {"get_workspace_users", "search_users"}
         -> {"message", "count", "users"}
    [] t = "get_me" -> {"message", "user"}
    [] t = "get_next_meeting"
         -> {"summary", "startTime", "endTime", "link", "description",
             "attendees"}
    [] t = "get_meetings_for_attendee" -> {"message", "meetings"}
    [] t \in {"get_todays_meetings", "search_meetings"} -> {}
    [] OTHER -> {"message", "count", "tasks"}

\* Whether execute returns the mapped array itself instead of an object.
ReturnsList(t) == t \in {"get_todays_meetings", "search_meetings"}

\* Whether execute has a return of its own for an empty result.
HasEmpty(t) == t \notin {"get_me", "get_project_status", "get_next_meeting"}

\* The fields of the object execute returns when there is nothing to show.
EmptyKeys(t) ==
  CASE t = "get_weekly_planned_tasks"
         -> {"message", "count", "tasks", "weekStart", "weekEnd"}
    [] t = "get_team_workload" -> {"message", "teamMembers", "workload"}
    [] t = "get_overdue_tasks_by_person"
         -> {"message", "totalOverdue", "byPerson"}
    [] t = "get_section_with_most_work" -> {"message"}
    [] t = "list_all_projects" -> {"message", "count", "projects"}
    [] t = "get_task_due_date_changes" -> SuccessKeys(t)
    [] t \in {"get_most_postponed_tasks", "get_recent_due_date_changes"}
         -> {"message", "tasks"}
    [] t \in {"get_workspace_users", "search_users"}
         -> {"message", "count", "users"}
    [] t \in CalendarTools -> {}
    [] OTHER -> {"message", "count", "tasks"}

\* What execute does with an error thrown by an awaited call outside a loop
\* body that catches: the envelope of its catch, or the error itself.
Failed(t) ==
  IF Catches(t) THEN Outcome("error", "object", ErrorKeys(t), "failure")
  ELSE Outcome("exception", "none", {}, "failure")

Succeeded(t) ==
  Outcome("success", IF ReturnsList(t) THEN "list" ELSE "object",
          SuccessKeys(t), "rows")

\* The return for an empty result: an object, in a calendar tool a sentence.
Empty(t) ==
  Outcome("empty", IF t \in CalendarTools THEN "string" ELSE "object",
          EmptyKeys(t), "rows")

\* The return when the lookup gave the not-found sentinel, which the
\* awaited call made of the answer why.
NotFound(t, why) ==
  IF t \in CalendarTools THEN Outcome("notfound", "string", {}, why)
  ELSE Outcome("notfound", "object", NotFoundKeys(t), why)

\* The agent invokes the execute of tool t.
ToolStart(c, t) ==
  /\ pc[c] = "idle"
  /\ tool[c] = "none"
  /\ tool' = [tool EXCEPT ![c] = t]
  /\ tstep' = [tstep EXCEPT ![c] = 1]
  /\ items' = [items EXCEPT ![c] = 0]
  /\ toolOut' = [toolOut EXCEPT ![c] = NoOut]
  /\ total' = [total EXCEPT ![c] = 0]
  /\ failures' = [failures EXCEPT ![c] = 0]
  /\ UNCHANGED <<now, requestCount, resetTime, pc, frames, deadline, vendorErr,
                 result, chk, checks, vendorCalls, issued, started, given,
                 answer>>
  /\ UNCHANGED fleetVars

InPrelude(c) == tstep[c] <= Len(Prelude(tool[c]))

\* The client method execute awaits next.
NextMethod(c) ==
  IF InPrelude(c) THEN Prelude(tool[c])[tstep[c]] ELSE LoopMethod(tool[c])

\* execute calls its next client method without awaiting the one before, as
\* a map over the items with Promise.all would.
ToolCallUnawaited(c) ==
  /\ tool[c] \in AsanaTools
  /\ toolOut[c] = NoOut
  /\ pc[c] \in {"idle", "vendor"}
  /\ started < MaxCalls
  /\ pc' = [pc EXCEPT ![c] = "entered"]
  /\ frames' = [frames EXCEPT ![c] = <<NextMethod(c)>>]
  /\ started' = started + 1
  /\ UNCHANGED <<now, requestCount, resetTime, deadline, vendorErr, result, chk,
                 checks, vendorCalls, issued>>
  /\ UNCHANGED <<toolVars, fleetVars>>

\* execute awaits its next client method.
ToolCall(c) ==
  /\ tool[c] \in AsanaTools
  /\ toolOut[c] = NoOut
  /\ Call(c, NextMethod(c))

\* What execute returns after a loop that went through n items of which
\* bad threw; nothing says whether the items kept had anything to show.
AfterLoop(t, n, bad) ==
  IF ~HasEmpty(t) THEN {Succeeded(t)}
  ELSE IF LoopCatches(t) /\ n > bad THEN {Succeeded(t), Empty(t)}
  ELSE IF LoopCatches(t) \/ n = 0 THEN {Empty(t)}
  ELSE {Succeeded(t)}

\* execute goes on after the awaited client method has returned or thrown.
ToolTake(c) ==
  LET t == tool[c]
      ok == result[c].kind = "ok"
      last == tstep[c] = Len(Prelude(t))
      bad == failures[c] + (IF ok THEN 0 ELSE 1)
  IN  /\ tool[c] \in AsanaTools
      /\ Settle(c)
      /\ tstep' = [tstep EXCEPT ![c] = @ + 1]
      /\ UNCHANGED <<tool, given, answer>>
      /\ UNCHANGED fleetVars
      /\ IF InPrelude(c)
         THEN /\ failures' = failures
              /\ IF ~ok
                 THEN /\ toolOut' = [toolOut EXCEPT ![c] = Failed(t)]
                      /\ UNCHANGED <<items, total>>
                 ELSE IF NextMethod(c) = "findProjectByName"
                 THEN /\ \E found \in BOOLEAN :
                           toolOut' = [toolOut EXCEPT ![c] =
                              IF found THEN NoOut ELSE NotFound(t, "norows")]
                      /\ UNCHANGED <<items, total>>
                 ELSE IF last /\ LoopMethod(t) # "none"
                 THEN \E n \in 0..MaxItems :
                        /\ items' = [items EXCEPT ![c] = n]
                        /\ total' = [total EXCEPT ![c] = n]
                        /\ \E out \in AfterLoop(t, 0, 0) :
                             toolOut' = [toolOut EXCEPT ![c] =
                                           IF n = 0 THEN out ELSE NoOut]
                 ELSE IF last
                 THEN /\ \E out \in {Succeeded(t)} \cup
                                    (IF HasEmpty(t) THEN {Empty(t)} ELSE {}) :
                           toolOut' = [toolOut EXCEPT ![c] = out]
                      /\ UNCHANGED <<items, total>>
                 ELSE /\ toolOut' = toolOut
                      /\ UNCHANGED <<items, total>>
         ELSE /\ failures' = [failures EXCEPT ![c] = bad]
              /\ total' = total
              /\ IF ~ok /\ ~LoopCatches(t)
                 THEN /\ toolOut' = [toolOut EXCEPT ![c] = Failed(t)]
                      /\ items' = items
                 ELSE /\ items' = [items EXCEPT ![c] = @ - 1]
                      /\ \E out \in AfterLoop(t, total[c], bad) :
                           toolOut' = [toolOut EXCEPT ![c] =
                                         IF items[c] = 1 THEN out ELSE NoOut]

\* execute of a calendar tool awaits its next SupabaseClient method, which
\* the store answers with o.
ToolStore(c, o) ==
  LET t == tool[c]
      r == StoreResult(StoreCalls(t)[tstep[c]], o)
  IN  /\ tool[c] \in CalendarTools
      /\ toolOut[c] = NoOut
      /\ tstep' = [tstep EXCEPT ![c] = @ + 1]
      /\ toolOut' = [toolOut EXCEPT ![c] =
            CASE r = "throw" -> Failed(t)
              [] r = "null" -> NotFound(t, o)
              [] r = "empty" -> Empty(t)
              [] OTHER -> IF tstep[c] = Len(StoreCalls(t))
                          THEN Succeeded(t) ELSE NoOut]
      /\ UNCHANGED <<now, requestCount, resetTime, pc, frames, deadline,
                     vendorErr, result, chk, checks, vendorCalls, issued,
                     started, tool, items, total, failures, given, answer>>
      /\ UNCHANGED fleetVars

\* The agent takes what execute returned or threw.
ToolEnd(c) ==
  /\ tool[c] # "none"
  /\ toolOut[c] # NoOut
  /\ tool' = [tool EXCEPT ![c] = "none"]
  /\ tstep' = [tstep EXCEPT ![c] = 0]
  /\ items' = [items EXCEPT ![c] = 0]
  /\ toolOut' = [toolOut EXCEPT ![c] = NoOut]
  /\ total' = [total EXCEPT ![c] = 0]
  /\ failures' = [failures EXCEPT ![c] = 0]
  /\ UNCHANGED <<now, requestCount, resetTime, pc, frames, deadline, vendorErr,
                 result, chk, checks, vendorCalls, issued, started, given,
                 answer>>
  /\ UNCHANGED fleetVars

\* The agent runs one tool at a time on the client.
ToolNext ==
  \/ Tick
  \/ \E t \in Tools : ToolStart(Main, t)
  \/ ToolCall(Main)
  \/ InClient(Main)
  \/ ToolTake(Main)
  \/ \E o \in StoreOutcomes : ToolStore(Main, o)
  \/ ToolEnd(Main)

ToolSpec == Init /\ [][ToolNext]_vars

\* The first tool the agent runs on a client it has just made.
FirstToolStart(c, t) == started = 0 /\ ToolStart(c, t)

\* One tool that calls the AsanaClient, under the scheduling of the event
\* loop: the clock advances, a timer that is due fires, every stretch of
\* code that no timer and no network holds up runs, and the vendor answers
\* every call, with data or with an error.
FairToolNext ==
  \/ Tick
  \/ \E t \in AsanaTools : FirstToolStart(Main, t)
  \/ ToolCall(Main)
  \/ InClient(Main)
  \/ ToolTake(Main)
  \/ ToolEnd(Main)

FairToolSpec ==
  /\ Init
  /\ [][FairToolNext]_vars
  /\ WF_vars(Tick)
  /\ WF_vars(ToolCall(Main))
  /\ WF_vars(Enter(Main))
  /\ WF_vars(Resume(Main))
  /\ WF_vars(Descend(Main))
  /\ WF_vars(IssueVendor(Main))
  /\ WF_vars(VendorOk(Main) \/ \E e \in VendorErrors : VendorFail(Main, e))
  /\ WF_vars(ToolTake(Main))

\* ------------------------------------------- the local computations
\* An optional field: absent (undefined or null) or present with a value.
None == <<>>
Some(x) == <<x>>
Val(o) == o[1]

\* The sequences over S of at most n elements.
SeqsUpTo(S, n) == UNION {[1..k -> S] : k \in 0..n}

\* Array.prototype.filter, as the indexes of the elements kept, in order;
\* test[i] is what the callback answers for element i.
Filter(arr, test) ==
  SelectSeq([i \in 1..Len(arr) |-> i], LAMBDA i : test[i])

\* The elements of an array.
Elements(arr) == {arr[i] : i \in 1..Len(arr)}

\* Whether index i of the fetched array is in the array of indexes kept.
Kept(kept, i) == \E j \in 1..Len(kept) : kept[j] = i

\* Instants: points of time, as Date holds them.
Instants == 1..(Days * DayLen)

\* The offsets of the local clock from UTC, in instants.
Offsets == {0 - 1, 0, 1}

\* The instants at which execute may read the clock: those of the middle day.
Nows == (DayLen + 1)..(2 * DayLen)

\* Date.prototype.toISOString and the timestamps of the vendor: the UTC date
\* and the UTC time of day, in a fixed width.
Iso(t) == <<t \div DayLen, t % DayLen>>

\* a >= b on strings of that form, character by character: on the date
\* alone.
IsoGeqByDate(a, b) == a[1] >= b[1]

\* a >= b on strings of that form, character by character.
IsoGeq(a, b) == a[1] > b[1] \/ (a[1] = b[1] /\ a[2] >= b[2])

\* date-fns startOfDay: the instant at which the local day of t began.
StartOfDay(t, off) == ((t + off) \div DayLen) * DayLen - off

\* The local calendar day instant t falls on.
LocalDay(t, off) == (t + off) \div DayLen

\* The tasks a fetch may return, as far as get_tasks_completed_today reads
\* them.
CompletedTasks ==
  [completed : BOOLEAN, completed_at : {None} \cup {Some(t) : t \in Instants}]

\* get_tasks_completed_today: the filter on the fetched tasks.
CompletedToday(v) ==
  LET todayStart == Iso(StartOfDay(v.today, v.offset))
  IN  Filter(v.tasks,
             [i \in 1..Len(v.tasks) |->
                LET task == v.tasks[i]
                IN  /\ task.completed
                    /\ task.completed_at # None
                    /\ IsoGeq(Iso(Val(task.completed_at)), todayStart)])

\* Array.prototype.sort, which is stable: each element in turn goes behind
\* the last element of those before it that the comparator does not put
\* after it; cmp[a][b] is what the comparator answers for a and b.
Sort(arr, cmp) ==
  LET InsertInto(sorted, x) ==
        LET fits == {j \in 1..Len(sorted) : cmp[sorted[j]][x] <= 0}
            p == IF fits = {} THEN 0
                 ELSE CHOOSE j \in fits : \A k \in fits : k <= j
        IN  SubSeq(sorted, 1, p) \o <<x>> \o SubSeq(sorted, p + 1, Len(sorted))
      upTo[k \in 0..Len(arr)] ==
        IF k = 0 THEN <<>> ELSE InsertInto(upTo[k - 1], arr[k])
  IN  upTo[Len(arr)]

\* A date as the vendor and format(d, 'yyyy-MM-dd') write it: the month and
\* the day of the month of day d, in a fixed width.
DateStr(d) == <<d \div MonthLen, d % MonthLen>>

\* The day a date string names.
DayOf(str) == str[1] * MonthLen + str[2]

\* a < b or a = b on date strings, character by character.
StrLessOrSame(a, b) == a[1] < b[1] \/ (a[1] = b[1] /\ a[2] <= b[2])

\* a < b on date strings, character by character.
StrLess(a, b) == a[1] < b[1] \/ (a[1] = b[1] /\ a[2] < b[2])

\* String.prototype.localeCompare on date strings.
LocaleCompare(a, b) == IF StrLess(a, b) THEN 0 - 1 ELSE IF a = b THEN 0 ELSE 1

\* The due dates a task may carry: none, or a day from before the first
\* instant to after the last.
DueDates == {None} \cup {Some(DateStr(d)) : d \in 0..(Days + 1)}

\* The tasks a fetch may return, as far as get_overdue_tasks reads them.
DueTasks == [completed : BOOLEAN, due_on : DueDates]

\* get_overdue_tasks: the filter on the fetched tasks and the sort of what
\* it keeps.
Overdue(v) ==
  LET todayStr == DateStr(LocalDay(v.today, v.offset))
      overdueTasks ==
        Filter(v.tasks,
               [i \in 1..Len(v.tasks) |->
                  LET task == v.tasks[i]
                  IN  /\ ~task.completed
                      /\ task.due_on # None
                      /\ StrLess(Val(task.due_on), todayStr)])
      oldestFirst ==
        [a \in Elements(overdueTasks) |-> [b \in Elements(overdueTasks) |->
           IF v.tasks[a].due_on = None \/ v.tasks[b].due_on = None THEN 0
           ELSE LocaleCompare(Val(v.tasks[a].due_on), Val(v.tasks[b].due_on))]]
  IN  Sort(overdueTasks, oldestFirst)

\* Math.floor(completed / total * 100): the rate cut off, not rounded.
RoundDown(completed, all) == (100 * completed) \div all

\* Math.round(completed / total * 100): the nearest integer, a half up.
Round(completed, all) == (200 * completed + all) \div (2 * all)

\* The assignees a task may have: none, or a user by gid.
Assignees == {None, Some("u1"), Some("u2")}

\* The tasks a fetch may return, as far as get_team_workload reads them.
WorkTasks ==
  [completed : BOOLEAN, assignee : Assignees,
   due_on : {None, Some(DateStr(0)), Some(DateStr(1))}]

\* get_team_workload: the buckets by assignee in the order in which the
\* Map first saw them, sorted, and the summary made of them.
Workload(v) ==
  LET Gid(task) ==
        IF task.assignee = None THEN "unassigned" ELSE Val(task.assignee)
      Count(w, task) ==
        [w EXCEPT
           !.totalTasks = @ + 1,
           !.completedTasks = @ + (IF task.completed THEN 1 ELSE 0),
           !.overdueTasks =
              @ + (IF task.due_on # None /\ ~task.completed
                      /\ StrLess(Val(task.due_on), v.todayStr) THEN 1 ELSE 0),
           !.upcomingTasks =
              @ + (IF task.due_on # None /\ ~task.completed
                      /\ ~StrLess(Val(task.due_on), v.todayStr) THEN 1 ELSE 0)]
      Fresh(task) ==
        [user |-> Gid(task), totalTasks |-> 0, completedTasks |-> 0,
         overdueTasks |-> 0, upcomingTasks |-> 0]
      ForEach(map, task) ==
        IF ~v.includeCompleted /\ task.completed THEN map
        ELSE IF \E j \in 1..Len(map) : map[j].user = Gid(task)
        THEN [j \in 1..Len(map) |->
                IF map[j].user = Gid(task) THEN Count(map[j], task)
                ELSE map[j]]
        ELSE Append(map, Count(Fresh(task), task))
      workloadMap[k \in 0..Len(v.tasks)] ==
        IF k = 0 THEN <<>> ELSE ForEach(workloadMap[k - 1], v.tasks[k])
      values == workloadMap[Len(v.tasks)]
      workloadArray ==
        Sort(values,
             [a \in Elements(values) |-> [b \in Elements(values) |->
                b.totalTasks - a.totalTasks]])
  IN  [j \in 1..Len(workloadArray) |->
         [user |-> workloadArray[j].user,
          totalTasks |-> workloadArray[j].totalTasks,
          completedTasks |-> workloadArray[j].completedTasks,
          overdueTasks |-> workloadArray[j].overdueTasks,
          upcomingTasks |-> workloadArray[j].upcomingTasks,
          completionRate |->
            IF workloadArray[j].totalTasks > 0
            THEN Round(workloadArray[j].completedTasks,
                       workloadArray[j].totalTasks)
            ELSE 0]]

\* A due date of a change-history entry that is null or missing.
NoDate == "null"

\* The due dates a change-history entry may carry.
StoryDates == {NoDate, "2024-01-01", "2024-01-08"}

\* The entries of a change history, as far as the tools read them.
Stories ==
  [resource_subtype : {"due_date_changed", "comment_added"},
   old_due_on : StoryDates, new_due_on : StoryDates]

\* An entry counts whenever its old and its new due date are not the same.
AnyDateChange(story) ==
  \/ story.resource_subtype = "due_date_changed"
  \/ story.new_due_on # story.old_due_on

\* An entry counts only by its subtype.
BySubtypeOnly(story) == story.resource_subtype = "due_date_changed"

\* The test of the filter for due-date changes.
IsDueDateChange(story) ==
  \/ story.resource_subtype = "due_date_changed"
  \/ /\ story.new_due_on # NoDate
     /\ story.old_due_on # NoDate
     /\ story.new_due_on # story.old_due_on

\* get_task_due_date_changes: the filter on the fetched history and the
\* changes it reports.
DueDateChanges(v) ==
  LET dueDateChanges ==
        Filter(v.stories,
               [i \in 1..Len(v.stories) |-> IsDueDateChange(v.stories[i])])
  IN  [changeCount |-> Len(dueDateChanges),
       from |-> dueDateChanges,
       changes |->
         [j \in 1..Len(dueDateChanges) |->
            LET story == v.stories[dueDateChanges[j]]
            IN  [oldDueDate |-> IF story.old_due_on # NoDate
                                THEN story.old_due_on ELSE "No due date",
                 newDueDate |-> IF story.new_due_on # NoDate
                                THEN story.new_due_on ELSE "Removed"]]]

\* Array.prototype.slice(0, end): a negative end counts from the back.
Slice(arr, end) ==
  LET to == IF end < 0 THEN Len(arr) + end ELSE end
      stop == IF to < 0 THEN 0 ELSE IF to > Len(arr) THEN Len(arr) ELSE to
  IN  SubSeq(arr, 1, stop)

\* A history entry that records a postponement, and one that is a comment.
Postponement ==
  [resource_subtype |-> "due_date_changed", old_due_on |-> "2024-01-01",
   new_due_on |-> "2024-01-08"]
Comment ==
  [resource_subtype |-> "comment_added", old_due_on |-> NoDate,
   new_due_on |-> NoDate]

\* Date.prototype.getTime of the Date made of a timestamp of that form.
GetTime(iso) == iso[1] * DayLen + iso[2]

\* A history entry with its created_at, the timestamp of instant t.
Stamped(story, t) ==
  [resource_subtype |-> story.resource_subtype,
   old_due_on |-> story.old_due_on, new_due_on |-> story.new_due_on,
   created_at |-> Iso(t)]

\* The change histories the scan may fetch: some postponements, oldest
\* first as the vendor lists them, or a comment.
Histories ==
  {[j \in 1..k |-> Stamped(Postponement, j)] : k \in 0..MaxStories}
    \cup {<<Stamped(Comment, 1)>>}

\* The tasks a fetch may return, as far as get_most_postponed_tasks reads
\* them, each with the change history its fetch returns.
PostponedTasks ==
  [completed : BOOLEAN, due_on : {None, Some(DateStr(1))}, stories : Histories]

\* The limits z.number() lets through.
Limits == (0 - 1)..(MaxTasks + 1)

\* The number of due-date changes in the history of a task.
ChangeCount(task) ==
  Len(Filter(task.stories,
             [i \in 1..Len(task.stories) |-> IsDueDateChange(task.stories[i])]))

\* get_most_postponed_tasks: the tasks scanned, those with changes, their
\* sort and the cut to the limit.
MostPostponed(v) ==
  LET incompleteTasks ==
        Filter(v.tasks,
               [i \in 1..Len(v.tasks) |->
                  ~v.tasks[i].completed /\ v.tasks[i].due_on # None])
      tasksWithChanges ==
        SelectSeq(incompleteTasks, LAMBDA i : ChangeCount(v.tasks[i]) > 0)
      sorted ==
        Sort(tasksWithChanges,
             [a \in Elements(tasksWithChanges) |->
                [b \in Elements(tasksWithChanges) |->
                   ChangeCount(v.tasks[b]) - ChangeCount(v.tasks[a])]])
      topPostponed == Slice(sorted, v.limit)
      Changes(task) ==
        Filter(task.stories,
               [i \in 1..Len(task.stories) |-> IsDueDateChange(task.stories[i])])
  IN  [totalTasksWithChanges |-> Len(tasksWithChanges),
       tasks |-> topPostponed,
       result |->
         [j \in 1..Len(topPostponed) |->
            LET task == v.tasks[topPostponed[j]]
            IN  [postponeCount |-> ChangeCount(task),
                 lastChange |-> task.stories[Changes(task)[1]].created_at]]]

\* The look-back of the scan ends at the clock itself.
CutoffNow(today, days) == today

\* `cutoffDate.setDate(cutoffDate.getDate() - days)`: the instant days
\* calendar days before today.
Cutoff(today, days) == today - days * DayLen

\* The instants at which a history entry may have been created: in the first
\* day, and at the start and the end of the middle day.
ChangeTimes == {1, DayLen, DayLen + 1, 2 * DayLen}

\* The change histories the scan for recent changes may fetch: none, one or
\* two postponements in any order of time, or a comment.
RecentHistories ==
  {<<>>, <<Stamped(Comment, 2 * DayLen)>>}
    \cup {<<Stamped(Postponement, t)>> : t \in ChangeTimes}
    \cup {<<Stamped(Postponement, t), Stamped(Postponement, u)>> :
            t \in ChangeTimes, u \in ChangeTimes}

\* The tasks the modified-since fetch may return, each with what the fetch
\* of its history does: it throws, or it returns a history.
RecentTasks ==
  {[fails |-> TRUE, stories |-> <<>>]}
    \cup {[fails |-> FALSE, stories |-> h] : h \in RecentHistories}

\* The look-backs a caller may ask for, in days.
Lookbacks == {0, 1}

\* get_recent_due_date_changes: the entries of each history the filter
\* keeps, the change reported for each task that has one, and their sort.
RecentDueDateChanges(v) ==
  LET cutoffStr == Iso(Cutoff(v.today, v.days))
      RecentOf(task) ==
        Filter(task.stories,
               [i \in 1..Len(task.stories) |->
                  /\ IsoGeq(task.stories[i].created_at, cutoffStr)
                  /\ IsDueDateChange(task.stories[i])])
      reported ==
        Filter(v.tasks,
               [i \in 1..Len(v.tasks) |->
                  ~v.tasks[i].fails /\ Len(RecentOf(v.tasks[i])) > 0])
      recentChanges ==
        [j \in 1..Len(reported) |->
           LET task == v.tasks[reported[j]]
               latestChange == task.stories[RecentOf(task)[1]]
           IN  [task |-> reported[j],
                oldDueDate |-> IF latestChange.old_due_on # NoDate
                               THEN latestChange.old_due_on ELSE "No due date",
                newDueDate |-> IF latestChange.new_due_on # NoDate
                               THEN latestChange.new_due_on ELSE "Removed",
                changedAt |-> latestChange.created_at]]
  IN  [count |-> Len(recentChanges),
       tasks |->
         Sort(recentChanges,
              [a \in Elements(recentChanges) |->
                 [b \in Elements(recentChanges) |->
                    GetTime(b.changedAt) - GetTime(a.changedAt)]])]

\* The characters of a name: a letter in both cases, and another letter.
Chars == {"a", "A", "b"}

\* The names of projects and the names a caller asks for.
Names == SeqsUpTo(Chars, MaxName) \ {<<>>}

\* A name as it is.
KeepCase(name) == name

\* String.prototype.toLowerCase.
ToLowerCase(name) ==
  [i \in 1..Len(name) |-> IF name[i] = "A" THEN "a" ELSE name[i]]

\* What find leaves when no project matches, made null by || null.
NoProject == [gid |-> 0, name |-> <<>>]

\* The project lists of a workspace: the gid of a project is its place.
ProjectLists ==
  {[i \in 1..Len(names) |-> [gid |-> i, name |-> names[i]]] :
     names \in SeqsUpTo(Names, MaxProjects)}

\* AsanaClient.findProjectByName on the fetched project list.
FindProjectByName(projects, projectName) ==
  LET hits == {i \in 1..Len(projects) :
                 ToLowerCase(projects[i].name) = ToLowerCase(projectName)}
  IN  IF hits = {} THEN NoProject
      ELSE projects[CHOOSE i \in hits : \A j \in hits : i <= j]

\* get_project_status: the project it looks up and reports on.
ProjectStatus(projects, projectName) ==
  LET project == FindProjectByName(projects, projectName)
  IN  IF project = NoProject THEN [found |-> FALSE, projectGid |-> 0]
      ELSE [found |-> TRUE, projectGid |-> project.gid]

\* get_project_status for every name a caller may ask for, on one project
\* list.
ProjectStatuses(v) == [n \in Names |-> ProjectStatus(v.projects, n)]

\* The names of the tasks a fetch may return, and the texts a caller may
\* search for: the names of projects and the empty text.
TaskNames == {<<"A", "b">>, <<"b", "a">>, <<"b">>}
Queries == SeqsUpTo(Chars, MaxName)

\* The tasks a fetch may return, as far as search_tasks_by_name reads them.
NamedTasks == [name : TaskNames, completed : BOOLEAN]

\* A text is found only at the start of the name.
IncludesAtStart(str, part) ==
  Len(part) <= Len(str) /\ SubSeq(str, 1, Len(part)) = part

\* String.prototype.includes: part occurs in str at some position.
Includes(str, part) ==
  \E k \in 0..(Len(str) - Len(part)) : SubSeq(str, k + 1, k + Len(part)) = part

\* search_tasks_by_name: the two filters on the fetched tasks and the object
\* execute returns.
SearchTasksByName(v) ==
  LET searchLower == ToLowerCase(v.searchQuery)
      byName ==
        Filter(v.tasks,
               [i \in 1..Len(v.tasks) |->
                  Includes(ToLowerCase(v.tasks[i].name), searchLower)])
      matchingTasks ==
        IF v.excludeCompleted
        THEN SelectSeq(byName, LAMBDA i : ~v.tasks[i].completed)
        ELSE byName
  IN  IF Len(matchingTasks) = 0
      THEN [keys |-> {"message", "count", "tasks"},
            message |-> <<"No tasks found matching", v.searchQuery>>,
            count |-> 0, tasks |-> <<>>]
      ELSE [keys |-> {"message", "count", "searchQuery", "tasks"},
            message |-> <<"Found task(s) matching", v.searchQuery>>,
            count |-> Len(matchingTasks), tasks |-> matchingTasks]

\* The tasks a fetch of the tasks of one section may return, as far as
\* get_project_status reads them: whether each is completed.
SectionTasks == SeqsUpTo(BOOLEAN, MaxTasks)

\* The work left in a section is all of its tasks.
IncompleteAsTotal(status) == status.totalTasks

\* `incompleteTasks: s.totalTasks - s.completedTasks`.
Incomplete(status) == status.totalTasks - status.completedTasks

\* get_project_status: the status of each section in turn, the totals of
\* the project, and the sections sorted by the work left in them.
SectionStatuses(v) ==
  LET Status(i) ==
        LET tasks == v.sections[i]
            completedTasks == Len(SelectSeq(tasks, LAMBDA done : done))
        IN  [section |-> i, totalTasks |-> Len(tasks),
             completedTasks |-> completedTasks,
             completionRate |-> IF Len(tasks) > 0
                                THEN Round(completedTasks, Len(tasks)) ELSE 0]
      sectionStatuses == [i \in 1..Len(v.sections) |-> Status(i)]
      sumTotal[k \in 0..Len(sectionStatuses)] ==
        IF k = 0 THEN 0 ELSE sumTotal[k - 1] + sectionStatuses[k].totalTasks
      sumCompleted[k \in 0..Len(sectionStatuses)] ==
        IF k = 0 THEN 0
        ELSE sumCompleted[k - 1] + sectionStatuses[k].completedTasks
      totalTasks == sumTotal[Len(sectionStatuses)]
      completedTasks == sumCompleted[Len(sectionStatuses)]
      mapped ==
        [i \in 1..Len(sectionStatuses) |->
           [section |-> sectionStatuses[i].section,
            totalTasks |-> sectionStatuses[i].totalTasks,
            completedTasks |-> sectionStatuses[i].completedTasks,
            incompleteTasks |-> Incomplete(sectionStatuses[i]),
            completionRate |-> sectionStatuses[i].completionRate]]
  IN  [totalTasks |-> totalTasks,
       completedTasks |-> completedTasks,
       incompleteTasks |-> totalTasks - completedTasks,
       completionRate |-> IF totalTasks > 0
                          THEN Round(completedTasks, totalTasks) ELSE 0,
       sectionCount |-> Len(v.sections),
       sections |->
         Sort(mapped,
              [a \in Elements(mapped) |-> [b \in Elements(mapped) |->
                 b.incompleteTasks - a.incompleteTasks]])]

\* What the local computation of tool t makes of v; get_project_status has
\* two, on the project list and on the tasks of the sections.
Local(t, v) ==
  CASE t = "get_tasks_completed_today" -> CompletedToday(v)
    [] t = "get_overdue_tasks" -> Overdue(v)
    [] t = "get_team_workload" -> Workload(v)
    [] t = "get_task_due_date_changes" -> DueDateChanges(v)
    [] t = "get_most_postponed_tasks" -> MostPostponed(v)
    [] t = "get_project_status" /\ "projects" \in DOMAIN v -> ProjectStatuses(v)
    [] t = "get_project_status" -> SectionStatuses(v)
    [] t = "search_tasks_by_name" -> SearchTasksByName(v)
    [] t = "get_recent_due_date_changes" -> RecentDueDateChanges(v)
    [] OTHER -> <<>>

\* The awaited client call of tool t has returned, and with the clock and
\* the parameters of execute the tool has v to compute on.
Fetched(t, v) ==
  /\ given.tool = "none"
  /\ given' = [tool |-> t, in |-> v]
  /\ UNCHANGED <<now, requestCount, resetTime, pc, frames, deadline, vendorErr,
                 result, chk, checks, vendorCalls, issued, started, tool,
                 tstep, items, toolOut, total, failures, answer>>
  /\ UNCHANGED fleetVars

\* A run of tool t on one of the inputs of S.
Hand(t, S) ==
  /\ given.tool = "none"
  /\ \E v \in S : Fetched(t, v)

\* execute runs its local computation on what it was given.
Compute ==
  /\ given.tool # "none"
  /\ answer.tool = "none"
  /\ answer' = [tool |-> given.tool, out |-> Local(given.tool, given.in)]
  /\ UNCHANGED <<now, requestCount, resetTime, pc, frames, deadline, vendorErr,
                 result, chk, checks, vendorCalls, issued, started, tool,
                 tstep, items, toolOut, total, failures, given>>
  /\ UNCHANGED fleetVars

\* get_tasks_completed_today on every fetched list, clock and time zone.
CompletedTodayInputs ==
  [tasks : SeqsUpTo(CompletedTasks, MaxTasks), today : Nows, offset : Offsets]

CompletedTodayNext ==
  \/ Hand("get_tasks_completed_today", CompletedTodayInputs)
  \/ Compute

CompletedTodaySpec == Init /\ [][CompletedTodayNext]_vars

\* get_overdue_tasks on every fetched list, clock and time zone.
OverdueInputs ==
  [tasks : SeqsUpTo(DueTasks, MaxTasks), today : Nows, offset : Offsets]

OverdueNext ==
  \/ Hand("get_overdue_tasks", OverdueInputs)
  \/ Compute

OverdueSpec == Init /\ [][OverdueNext]_vars

\* get_team_workload on every fetched list, with and without the completed
\* tasks.
WorkloadInputs ==
  [tasks : SeqsUpTo(WorkTasks, MaxTasks + 1), includeCompleted : BOOLEAN,
   todayStr : {DateStr(1)}]

WorkloadNext ==
  \/ Hand("get_team_workload", WorkloadInputs)
  \/ Compute

WorkloadSpec == Init /\ [][WorkloadNext]_vars

\* get_task_due_date_changes on every fetched change history.
DueDateChangesInputs == [stories : SeqsUpTo(Stories, MaxStories)]

DueDateChangesNext ==
  \/ Hand("get_task_due_date_changes", DueDateChangesInputs)
  \/ Compute

DueDateChangesSpec == Init /\ [][DueDateChangesNext]_vars

\* get_most_postponed_tasks on every fetched list, histories and limit.
MostPostponedInputs ==
  [tasks : SeqsUpTo(PostponedTasks, MaxTasks + 1), limit : Limits]

MostPostponedNext ==
  \/ Hand("get_most_postponed_tasks", MostPostponedInputs)
  \/ Compute

MostPostponedSpec == Init /\ [][MostPostponedNext]_vars

\* get_project_status on every project list.
ProjectStatusInputs == [projects : ProjectLists]

ProjectStatusNext ==
  \/ Hand("get_project_status", ProjectStatusInputs)
  \/ Compute

ProjectStatusSpec == Init /\ [][ProjectStatusNext]_vars

\* search_tasks_by_name on every fetched list, query and option.
SearchInputs ==
  [tasks : SeqsUpTo(NamedTasks, MaxTasks), searchQuery : Queries,
   excludeCompleted : BOOLEAN]

SearchNext ==
  \/ Hand("search_tasks_by_name", SearchInputs)
  \/ Compute

SearchSpec == Init /\ [][SearchNext]_vars

\* get_recent_due_date_changes on every fetched list, histories, clock and
\* look-back.
RecentInputs ==
  [tasks : SeqsUpTo(RecentTasks, MaxTasks), today : Nows, days : Lookbacks]

RecentNext ==
  \/ Hand("get_recent_due_date_changes", RecentInputs)
  \/ Compute

RecentSpec == Init /\ [][RecentNext]_vars

\* The two tools that show the latest change of a task.
LastChangeNext ==
  \/ Hand("get_recent_due_date_changes", RecentInputs)
  \/ Hand("get_most_postponed_tasks", MostPostponedInputs)
  \/ Compute

LastChangeSpec == Init /\ [][LastChangeNext]_vars

\* The histories of one task with entries of every kind, created at the
\* end of the middle day.
AnyHistories ==
  {[j \in 1..Len(h) |-> Stamped(h[j], 2 * DayLen)] :
     h \in SeqsUpTo(Stories, MaxStories)}

\* The three due-date tools, each on one task with such a history: the two
\* scans on an incomplete task with a due date, within limit and look-back.
PredicateNext ==
  \/ Hand("get_task_due_date_changes", [stories : AnyHistories])
  \/ Hand("get_most_postponed_tasks",
          [tasks : {<<[completed |-> FALSE, due_on |-> Some(DateStr(1)),
                       stories |-> h]>> : h \in AnyHistories},
           limit : {MaxTasks}])
  \/ Hand("get_recent_due_date_changes",
          [tasks : {<<[fails |-> FALSE, stories |-> h]>> : h \in AnyHistories},
           today : {2 * DayLen}, days : {1}])
  \/ Compute

PredicateSpec == Init /\ [][PredicateNext]_vars

\* get_project_status on the fetched tasks of every list of sections.
SectionsInputs == [sections : SeqsUpTo(SectionTasks, MaxItems + 1)]

SectionsNext ==
  \/ Hand("get_project_status", SectionsInputs)
  \/ Compute

SectionsSpec == Init /\ [][SectionsNext]_vars

\* ------------------------------------------------------------ properties
\* The vendor calls issued at the times t, ..., t + Window - 1 that the log
\* still holds (it holds every call of the Window ticks that end now).
IssuedIn(t) ==
  Cardinality({i \in DOMAIN issued : issued[i] >= t /\ issued[i] < t + Window})

\* The vendor calls issued inside the current counting window, from its start
\* up to (not including) its reset timestamp.
IssuedInWindow == IssuedIn(resetTime - Window)

\* C1: in every reachable state requestCount is at most the ceiling.
C1_CountAtMostCeiling == requestCount <= Ceiling

\* C2: with one caller that awaits each call before the next, no interval of
\* Window ticks holds more than Ceiling vendor calls.
C2_AnyIntervalAtMostCeiling == \A t \in 0..MaxTime : IssuedIn(t) <= Ceiling

\* C3: with several callers inside checkRateLimit at once, the vendor calls
\* admitted within one counting window never exceed the ceiling.
C3_WindowAtMostCeilingConcurrent == IssuedInWindow <= Ceiling

\* C4: a check that starts past the reset timestamp sets requestCount to 0 and
\* resetTime to now + Window before it counts, so it completes with
\* requestCount = 1 and without suspending, whatever the count was.
C4_RolloverCompletesWithOne ==
  [][\A c \in Callers :
       (/\ pc[c] = "entered"
        /\ pc'[c] # "entered"
        /\ OwnRateCheck(Top(c))
        /\ now > resetTime)
       => (/\ pc'[c] = "body"
           /\ requestCount' = 1
           /\ resetTime' = now + Window)]_vars

C4_Witness ==
  \E c \in Callers :
    /\ pc[c] = "body"
    /\ chk[c].path = "rollover"
    /\ chk[c].countBefore >= Ceiling
    /\ chk[c].countAfter = 1

\* C5: a check that finds the ceiling reached before the reset timestamp
\* suspends; it resumes no earlier than that reset timestamp, and when it
\* resumes it leaves requestCount = 1 and resetTime = now + Window.
C5_CeilingWaitsForReset ==
  /\ [][\A c \in Callers :
          (/\ pc[c] = "entered"
           /\ pc'[c] # "entered"
           /\ OwnRateCheck(Top(c))
           /\ requestCount >= Ceiling
           /\ now < resetTime)
          => (/\ pc'[c] = "suspended"
              /\ chk'[c].resetAtEntry = resetTime
              /\ issued' = issued)]_vars
  /\ [][\A c \in Callers :
          (pc[c] = "suspended" /\ pc'[c] # "suspended")
          => (/\ now >= chk[c].resetAtEntry
              /\ pc'[c] = "body"
              /\ requestCount' = 1
              /\ resetTime' = now + Window)]_vars
  /\ [](\A c \in Callers :
          (chk[c].path = "wait" /\ pc[c] = "body")
          => (now >= chk[c].resetAtEntry /\ chk[c].countAfter = 1))

C5_Witness ==
  \E c \in Callers :
    /\ pc[c] = "body"
    /\ chk[c].path = "wait"
    /\ chk[c].countBefore = Ceiling
    /\ now >= chk[c].resetAtEntry

\* C6: every completed check adds exactly one to requestCount (to 0 after a
\* rollover or a wait, to the old count otherwise), and it does so before the
\* caller's vendor call, which leaves requestCount alone.
C6_EveryCheckCountsOnce ==
  /\ [][\A c \in Callers :
          (checks'[c] = checks[c] + 1)
          => (/\ requestCount' =
                   (IF pc[c] = "suspended" \/ Rollover(now, resetTime)
                    THEN 0 ELSE requestCount) + 1
              /\ vendorCalls[c] = 0
              /\ vendorCalls'[c] = 0)]_vars
  /\ [][\A c \in Callers :
          (vendorCalls'[c] = vendorCalls[c] + 1)
          => (checks[c] >= 1 /\ requestCount' = requestCount)]_vars
  /\ [][\A c \in Callers :
          (pc[c] \in {"entered", "suspended"} /\ pc'[c] = "body"
           /\ OwnRateCheck(Top(c)))
          => checks'[c] = checks[c] + 1]_vars

C6_Witness ==
  \E c, d \in Callers :
    /\ pc[c] = "body" /\ chk[c].path = "wait" /\ chk[c].countAfter = 1
    /\ pc[d] = "body" /\ chk[d].path = "plain" /\ chk[d].countAfter = 2

\* C7: checkRateLimit only delays: a caller inside a client method, suspended
\* or not, eventually gets to issue its vendor call, and until then the method
\* has produced no error.
C7_LimiterOnlyDelays ==
  /\ \A c \in Callers :
       (pc[c] \in {"entered", "suspended", "body"}) ~> (pc[c] = "vendor")
  /\ [](\A c \in Callers :
          pc[c] \in {"entered", "suspended", "body"} => result[c] = NoResult)

C7_Witness ==
  \E c, d \in Callers :
    /\ pc[c] = "vendor" /\ checks[c] = 1 /\ now >= deadline[d]
    /\ pc[d] = "suspended"
    /\ requestCount = 1

\* C8: every public fetch operation runs exactly one rate-limiter check and
\* issues exactly one vendor call, and the check is complete before the call.
C8_OneCheckOneVendorCall ==
  \A c \in Callers :
    /\ pc[c] \in {"vendor", "returned"} => checks[c] = 1 /\ vendorCalls[c] = 1
    /\ pc[c] \in {"entered", "suspended", "body"} => vendorCalls[c] = 0
    /\ vendorCalls[c] >= 1 => checks[c] >= 1
    /\ checks[c] <= 1

C8_Witness ==
  \E c \in Callers :
    /\ pc[c] = "returned"
    /\ frames[c][1] \in {"searchUsers", "findProjectByName"}
    /\ checks[c] = 1
    /\ vendorCalls[c] = 1

\* C9: when the vendor call fails the operation fails with an error whose
\* message is the method's prefix followed by the vendor's message, never with
\* a result, and requestCount keeps the increment of that call.
C9_VendorFailureIsFetchError ==
  /\ [](\A c \in Callers :
          (pc[c] = "returned" /\ vendorErr[c] # NoError)
          => (/\ result[c].kind = "error"
              /\ result[c].message[1] = ErrorPrefix(Top(c))
              /\ vendorErr[c].message # ""
                   => result[c].message[2] = vendorErr[c].message
              /\ vendorErr[c].message = ""
                   => result[c].message[2] = vendorErr[c].text))
  /\ [][\A c \in Callers :
          (pc[c] = "vendor" /\ pc'[c] = "returned")
          => (/\ requestCount' = requestCount
              /\ requestCount' >= 1
              /\ (result'[c].kind = "ok") = (vendorErr'[c] = NoError))]_vars

C9_Witness ==
  \E c \in Callers :
    /\ pc[c] = "returned"
    /\ vendorErr[c].message = "Unauthorized"
    /\ result[c] = [kind |-> "error",
                    message |-> <<"Failed to fetch tasks: ", "Unauthorized">>]
    /\ requestCount >= 1

\* C10: no tool lets an exception cross its boundary: whatever fails
\* underneath, execute returns an object with an error message and a
\* zero-valued count or an empty collection.
C10_NoToolThrows ==
  \A c \in Callers :
    /\ toolOut[c].kind # "exception"
    /\ toolOut[c].kind = "error"
         => /\ "error" \in toolOut[c].keys
            /\ toolOut[c].keys \ {"error"} # {}

\* The fields that hold a collection of results.
CollectionKeys ==
  {"tasks", "users", "projects", "workload", "byPerson", "changes",
   "sections", "allSections", "tasksByDay", "meetings"}

\* C11: whatever the outcome (success, empty result, not found, failure),
\* a tool returns an object, never a bare string or list, that carries a
\* count and a data collection, with a message on success and an error on
\* failure.
C11_TwoEnvelopeShapes ==
  \A c \in Callers :
    LET o == toolOut[c]
    IN  o.kind \notin {"none", "exception"}
          => /\ o.shape = "object"
             /\ "count" \in o.keys
             /\ o.keys \cap CollectionKeys # {}
             /\ o.kind \in {"success", "empty"} => "message" \in o.keys
             /\ o.kind = "error" => "error" \in o.keys

\* The tools whose loop fetches the change history of one task per turn.
HistoryScans == {"get_most_postponed_tasks", "get_recent_due_date_changes"}

\* The fetches of its loop execute has taken so far.
LoopFetches(c) == tstep[c] - 1 - Len(Prelude(tool[c]))

\* C12: in get_most_postponed_tasks and get_recent_due_date_changes a
\* failed history fetch of one task does not end the tool: the loop goes on
\* to the tasks that remain, has fetched the history of every task when the
\* tool returns, and the tool returns a result and no error envelope.
C12_HistoryFailureSkipsTask ==
  \A c \in Callers :
    (tool[c] \in HistoryScans /\ failures[c] > 0)
      => /\ toolOut[c].kind \in {"none", "success", "empty"}
         /\ toolOut[c] = NoOut => items[c] = total[c] - LoopFetches(c)
         /\ toolOut[c] # NoOut => LoopFetches(c) = total[c]
         /\ toolOut[c].kind = "success" => failures[c] < total[c]

\* A scan of two tasks returns its result after the first fetch threw.
C12_Witness ==
  \E c \in Callers :
    /\ tool[c] \in HistoryScans
    /\ total[c] = MaxItems
    /\ failures[c] = 1
    /\ toolOut[c].kind = "success"

\* The tools whose loop fetches the tasks of one section per turn.
SectionScans == {"get_project_status", "get_section_with_most_work"}

\* C13: in get_project_status and get_section_with_most_work a failed task
\* fetch of one section does not end the tool: the section is skipped and
\* the tool returns a result built from the other sections.
C13_SectionFailureSkipsSection ==
  \A c \in Callers :
    (tool[c] \in SectionScans /\ failures[c] > 0)
      => /\ toolOut[c].kind \in {"none", "success", "empty"}
         /\ toolOut[c] # NoOut => LoopFetches(c) = total[c]

\* C14: a tool reports not-found only when the lookup matched nothing, never
\* when the lookup failed, and without the error field of a failure.
C14_NotFoundIsNotAnError ==
  \A c \in Callers :
    toolOut[c].kind = "notfound"
      => /\ toolOut[c].cause = "norows"
         /\ "error" \notin toolOut[c].keys

\* The answer of tool t is there.
Answered(t) == answer.tool = t

\* C15 as stated: a completed task is included if and only if its completion
\* timestamp falls on the current calendar day of the local clock, and a
\* task that is not completed or has no completion timestamp never is.
C15_CompletedOnCurrentDay ==
  Answered("get_tasks_completed_today") =>
    LET v == given.in
    IN  \A i \in 1..Len(v.tasks) :
          Kept(answer.out, i) <=>
            /\ v.tasks[i].completed
            /\ v.tasks[i].completed_at # None
            /\ LocalDay(Val(v.tasks[i].completed_at), v.offset)
                 = LocalDay(v.today, v.offset)

\* C15, amended: a task is included if and only if it is completed, has a
\* completion timestamp, and the timestamp is at or after the start of the
\* current local day; a timestamp after the end of that day is included too.
C15_CompletedSinceStartOfDay ==
  Answered("get_tasks_completed_today") =>
    LET v == given.in
    IN  \A i \in 1..Len(v.tasks) :
          Kept(answer.out, i) <=>
            /\ v.tasks[i].completed
            /\ v.tasks[i].completed_at # None
            /\ LocalDay(Val(v.tasks[i].completed_at), v.offset)
                 >= LocalDay(v.today, v.offset)

\* A list with a task completed today before the clock was read in a zone
\* off UTC, kept, and a task completed the day before, dropped.
C15_Witness ==
  /\ Answered("get_tasks_completed_today")
  /\ given.in.offset # 0
  /\ Len(given.in.tasks) = MaxTasks
  /\ Len(answer.out) = 1
  /\ \E i \in 1..Len(given.in.tasks) :
       /\ given.in.tasks[i].completed
       /\ given.in.tasks[i].completed_at # None
       /\ LocalDay(Val(given.in.tasks[i].completed_at), given.in.offset)
            < LocalDay(given.in.today, given.in.offset)

\* C16: get_overdue_tasks includes a task if and only if it is not completed
\* and its due date is a day strictly before the local today (a task due
\* today or without due date is left out), and it lists the tasks it
\* includes once each, in ascending order of due date.
C16_OverdueStrictlyBeforeToday ==
  Answered("get_overdue_tasks") =>
    LET v == given.in
        Due(i) == DayOf(Val(v.tasks[i].due_on))
    IN  /\ \A i \in 1..Len(v.tasks) :
             Kept(answer.out, i) <=>
               /\ ~v.tasks[i].completed
               /\ v.tasks[i].due_on # None
               /\ Due(i) < LocalDay(v.today, v.offset)
        /\ \A j, k \in 1..Len(answer.out) :
             j < k => /\ answer.out[j] # answer.out[k]
                      /\ Due(answer.out[j]) <= Due(answer.out[k])

\* A list whose overdue tasks arrive latest first and come out oldest first.
C16_Witness ==
  /\ Answered("get_overdue_tasks")
  /\ Len(answer.out) = MaxTasks
  /\ answer.out[1] > answer.out[2]
  /\ given.in.tasks[answer.out[1]].due_on
       # given.in.tasks[answer.out[2]].due_on

\* The fetched tasks that are not completed and belong to the bucket of gid.
IncompleteOf(tasks, gid) ==
  {i \in 1..Len(tasks) :
     /\ ~tasks[i].completed
     /\ gid = (IF tasks[i].assignee = None THEN "unassigned"
               ELSE Val(tasks[i].assignee))}

\* C17: without the completed tasks, get_team_workload counts every fetched
\* incomplete task in exactly one bucket, the one of its assignee or the
\* bucket 'unassigned', so the totals of the buckets add up to the number
\* of incomplete tasks; the completion rate of a bucket is
\* completed / total * 100 rounded to the nearest integer, and 0 for a total
\* of 0; the buckets come in descending order of their totals.
C17_WorkloadBuckets ==
  Answered("get_team_workload") =>
    LET v == given.in
        w == answer.out
        sum[k \in 0..Len(w)] ==
          IF k = 0 THEN 0 ELSE sum[k - 1] + w[k].totalTasks
    IN  /\ ~v.includeCompleted =>
             /\ \A j, k \in 1..Len(w) : j # k => w[j].user # w[k].user
             /\ \A j \in 1..Len(w) :
                  w[j].totalTasks = Cardinality(IncompleteOf(v.tasks, w[j].user))
             /\ sum[Len(w)]
                  = Cardinality({i \in 1..Len(v.tasks) : ~v.tasks[i].completed})
        /\ \A j \in 1..Len(w) :
             IF w[j].totalTasks = 0 THEN w[j].completionRate = 0
             ELSE /\ 2 * w[j].completionRate * w[j].totalTasks
                       <= 200 * w[j].completedTasks + w[j].totalTasks
                  /\ 2 * w[j].completionRate * w[j].totalTasks
                       > 200 * w[j].completedTasks - w[j].totalTasks
        /\ \A j, k \in 1..Len(w) : j < k => w[j].totalTasks >= w[k].totalTasks

\* Without the completed tasks, an unassigned task seen first and two tasks
\* of one user seen after it: the user's bucket comes first.
C17_Witness ==
  /\ Answered("get_team_workload")
  /\ ~given.in.includeCompleted
  /\ Len(given.in.tasks) > 0
  /\ given.in.tasks[1].assignee = None
  /\ Len(answer.out) = 2
  /\ answer.out[1].totalTasks = 2
  /\ answer.out[2].user = "unassigned"

\* The fetched tasks the scan can return: incomplete, with a due date and
\* with a due-date change in their history.
Postponed(tasks) ==
  {i \in 1..Len(tasks) :
     /\ ~tasks[i].completed
     /\ tasks[i].due_on # None
     /\ ChangeCount(tasks[i]) > 0}

\* C18: for every limit L get_most_postponed_tasks returns at most L tasks
\* (none for an L below 0), in descending order of their number of due-date
\* changes; they are the L tasks with the most changes among the incomplete
\* tasks with a due date, and none of them has no change.
C18_TopWithinLimit ==
  Answered("get_most_postponed_tasks") =>
    LET v == given.in
        out == answer.out.tasks
        L == IF v.limit < 0 THEN 0 ELSE v.limit
        N == Cardinality(Postponed(v.tasks))
        Changes(j) == ChangeCount(v.tasks[out[j]])
    IN  /\ Len(out) <= L
        /\ Len(out) = (IF L < N THEN L ELSE N)
        /\ \A j \in 1..Len(out) : out[j] \in Postponed(v.tasks)
        /\ \A j, k \in 1..Len(out) : j # k => out[j] # out[k]
        /\ \A j \in 1..(Len(out) - 1) : Changes(j) >= Changes(j + 1)
        /\ \A i \in Postponed(v.tasks) :
             Kept(out, i) \/ \A j \in 1..Len(out) :
                               ChangeCount(v.tasks[i]) <= Changes(j)

\* A name in capitals.
Capitals(name) == [i \in 1..Len(name) |-> IF name[i] = "a" THEN "A" ELSE name[i]]

\* C19: on one project list, get_project_status(n) reports the project that
\* findProjectByName(n) returns, for every name n; a name and the same name
\* in another case resolve to the same project; a project is found only
\* under its whole name and never under a part of it, and it is the first
\* of the list with that name.
C19_SameProjectIgnoringCase ==
  Answered("get_project_status") =>
    LET projects == given.in.projects
    IN  \A n \in Names :
          LET r == answer.out[n]
              same == {i \in 1..Len(projects) :
                         Capitals(projects[i].name) = Capitals(n)}
          IN  /\ r.found <=> FindProjectByName(projects, n) # NoProject
              /\ r.projectGid = FindProjectByName(projects, n).gid
              /\ r = answer.out[Capitals(n)]
              /\ r.found <=> same # {}
              /\ r.found => /\ r.projectGid \in same
                            /\ \A i \in same : r.projectGid <= i

\* A project "Ab" that is found under "ab" and is not found under "A".
C19_Witness ==
  /\ Answered("get_project_status")
  /\ Len(given.in.projects) = 1
  /\ given.in.projects[1].name = <<"A", "b">>
  /\ answer.out[<<"a", "b">>].found
  /\ answer.out[<<"a", "b">>].projectGid = given.in.projects[1].gid
  /\ ~answer.out[<<"A">>].found

\* The changes reported are the entries of the history, one for one and in
\* the order of the history, with a missing new due date shown as "Removed".
ReportsWholeHistory ==
  LET h == given.in.stories
      r == answer.out
  IN  /\ r.changeCount = Len(h)
      /\ Len(r.changes) = Len(h)
      /\ \A j \in 1..Len(r.changes) :
           /\ r.from[j] = j
           /\ r.changes[j].newDueDate
                = (IF h[j].new_due_on = NoDate THEN "Removed"
                   ELSE h[j].new_due_on)

\* C20 as stated: for a history whose entries each record a due date that
\* went from an old value to a different new one, a removed due date
\* included, get_task_due_date_changes reports as many changes as the
\* history has entries, in history order, a removed due date as "Removed".
C20_EveryTransitionCounted ==
  (/\ Answered("get_task_due_date_changes")
   /\ \A j \in 1..Len(given.in.stories) :
        given.in.stories[j].old_due_on # given.in.stories[j].new_due_on)
    => ReportsWholeHistory

\* C20, amended: the same for a history whose entries each carry the
\* subtype of a due-date change or have an old and a new due date that are
\* both present and differ; a removed due date counts by the subtype alone.
C20_EveryMarkedTransitionCounted ==
  (/\ Answered("get_task_due_date_changes")
   /\ \A j \in 1..Len(given.in.stories) :
        LET e == given.in.stories[j]
        IN  /\ e.old_due_on # e.new_due_on
            /\ \/ e.resource_subtype = "due_date_changed"
               \/ (e.old_due_on # NoDate /\ e.new_due_on # NoDate))
    => ReportsWholeHistory

\* A history of a postponement without the subtype and a removal with it,
\* reported as two changes.
C20_Witness ==
  /\ Answered("get_task_due_date_changes")
  /\ Len(given.in.stories) = 2
  /\ given.in.stories[1].resource_subtype = "comment_added"
  /\ given.in.stories[1].old_due_on = "2024-01-01"
  /\ given.in.stories[1].new_due_on = "2024-01-08"
  /\ given.in.stories[2].new_due_on = NoDate
  /\ answer.out.changeCount = 2
  /\ answer.out.changes[2].newDueDate = "Removed"

\* The fetched tasks whose name holds the query at some place, the case of
\* the letters left aside.
Matching(v) ==
  {i \in 1..Len(v.tasks) :
     \E from, to \in 0..Len(v.tasks[i].name) :
       Capitals(SubSeq(v.tasks[i].name, from + 1, to)) = Capitals(v.searchQuery)}

\* The object execute returns when nothing matches.
NothingFound(r, v) ==
  /\ r.keys = {"message", "count", "tasks"}
  /\ r.count = 0
  /\ r.tasks = <<>>
  /\ r.message = <<"No tasks found matching", v.searchQuery>>

\* The tasks returned are the tasks of the set S, once each, as counted.
ReturnsExactly(r, S) ==
  /\ r.count = Cardinality(S)
  /\ Len(r.tasks) = r.count
  /\ \A i \in S : Kept(r.tasks, i)
  /\ \A j \in 1..Len(r.tasks) : r.tasks[j] \in S

\* C21 as stated: when no fetched name holds the query, search_tasks_by_name
\* returns count 0, no tasks and the message that names the query, without
\* an error field; when some name holds it, it returns exactly the tasks
\* whose name holds it.
C21_ExactlyTheMatchingTasks ==
  Answered("search_tasks_by_name") =>
    LET v == given.in
        r == answer.out
    IN  /\ "error" \notin r.keys
        /\ Matching(v) = {} => NothingFound(r, v)
        /\ Matching(v) # {} => ReturnsExactly(r, Matching(v))

\* C21, amended: the same, where with excludeCompleted the tasks that count
\* as matching are those whose name holds the query and that are not
\* completed.
C21_MatchingTasksOfTheOption ==
  Answered("search_tasks_by_name") =>
    LET v == given.in
        r == answer.out
        wanted == {i \in Matching(v) :
                     ~(v.excludeCompleted /\ v.tasks[i].completed)}
    IN  /\ "error" \notin r.keys
        /\ wanted = {} => NothingFound(r, v)
        /\ wanted # {} => ReturnsExactly(r, wanted)

\* A query in another case found inside the names of two tasks, of which
\* the completed one is left out by the option.
C21_Witness ==
  /\ Answered("search_tasks_by_name")
  /\ given.in.searchQuery = <<"A">>
  /\ given.in.excludeCompleted
  /\ Len(given.in.tasks) = 2
  /\ given.in.tasks[1] = [name |-> <<"A", "b">>, completed |-> TRUE]
  /\ given.in.tasks[2] = [name |-> <<"b", "a">>, completed |-> FALSE]
  /\ answer.out.count = 1
  /\ answer.out.tasks = <<2>>

\* C22: the rate window belongs to the client object: a step of the code of
\* one client leaves the requestCount and the resetTime of the other as they
\* were, and a client is suspended only by a count of its own that has
\* reached the ceiling, whatever the count of the other is.
C22_WindowOwnedByInstance ==
  /\ [][\A k \in Clients :
          (acting' # k /\ instances[k].built)
          => /\ RequestCountOf(k)' = RequestCountOf(k)
             /\ ResetTimeOf(k)' = ResetTimeOf(k)]_vars
  /\ [][\A k \in Clients :
          (instances[k].at = "idle" /\ instances'[k].at = "suspended")
          => /\ RequestCountOf(k) >= Ceiling
             /\ now < ResetTimeOf(k)]_vars
  /\ [][\A k \in Clients :
          (/\ instances[k].at = "idle" /\ instances'[k].at # "idle"
           /\ RequestCountOf(k) < Ceiling)
          => instances'[k].at = "body"]_vars

\* One client is suspended at its ceiling and the other, called after that,
\* has passed its check at once with its first count.
C22_Witness ==
  \E k, j \in Clients :
    /\ k # j
    /\ instances[k].at = "suspended"
    /\ instances[k].requestCount >= Ceiling
    /\ now < instances[k].deadline
    /\ acting = j
    /\ instances[j].at = "body"
    /\ instances[j].requestCount = 1

\* C30: every vendor call of a client is sent with the access token that
\* client was constructed with, whatever other clients have been constructed
\* in between.
C30_OwnCredentials ==
  \A k \in Clients :
    instances[k].sentWith \in {"none", instances[k].accessToken}

\* The tools whose execute has a loop with one fetch per item.
LoopTools == HistoryScans \cup SectionScans

\* C23: within one invocation of a tool no vendor call is issued while
\* another is outstanding; the loop calls the client for an item only when
\* execute has taken the outcome, result or error, of the call for every
\* item before it, in the order of the fetched list; and every vendor call
\* comes after one completed rate-limiter check of its own.
C23_OneCallAtATime ==
  /\ [](\A c \in Callers : tool[c] # "none" => vendorCalls[c] <= 1)
  /\ [][\A c \in Callers :
          (tool[c] \in LoopTools /\ pc[c] = "idle" /\ pc'[c] = "entered")
          => /\ result[c] = NoResult
             /\ vendorCalls[c] = 0
             /\ ~InPrelude(c) => /\ items[c] >= 1
                                 /\ LoopFetches(c) = total[c] - items[c]]_vars
  /\ [][\A c \in Callers :
          (tool[c] # "none" /\ vendorCalls'[c] = vendorCalls[c] + 1)
          => (vendorCalls[c] = 0 /\ checks[c] = 1)]_vars

\* The vendor call for the second of two tasks is outstanding after the call
\* for the first has failed.
C23_Witness ==
  \E c \in Callers :
    /\ tool[c] \in HistoryScans
    /\ total[c] = MaxItems
    /\ LoopFetches(c) = 1
    /\ failures[c] = 1
    /\ pc[c] = "vendor"
    /\ vendorCalls[c] = 1
    /\ checks[c] = 1

\* The entries of a history that are marked as due-date changes or carry an
\* old and a new due date that differ.
Marked(e) == e.resource_subtype = "due_date_changed"
BothDiffer(e) ==
  e.old_due_on # NoDate /\ e.new_due_on # NoDate /\ e.old_due_on # e.new_due_on
Counted(h) == {j \in 1..Len(h) : Marked(h[j]) \/ BothDiffer(h[j])}

\* C24: each of the three due-date tools counts an entry of the history if
\* and only if it is marked as a due-date change or has an old and a new
\* due date that are both there and differ: get_task_due_date_changes
\* reports exactly those entries, get_most_postponed_tasks counts exactly
\* those and returns the task when there is one, and
\* get_recent_due_date_changes reports the task exactly when there is one.
C24_OnePredicateInThreeTools ==
  /\ Answered("get_task_due_date_changes") =>
       LET h == given.in.stories
       IN  /\ answer.out.changeCount = Cardinality(Counted(h))
           /\ \A j \in 1..Len(h) : Kept(answer.out.from, j) <=> j \in Counted(h)
  /\ Answered("get_most_postponed_tasks") =>
       LET h == given.in.tasks[1].stories
       IN  /\ Len(answer.out.result) = (IF Counted(h) = {} THEN 0 ELSE 1)
           /\ \A j \in 1..Len(answer.out.result) :
                answer.out.result[j].postponeCount = Cardinality(Counted(h))
  /\ Answered("get_recent_due_date_changes") =>
       LET h == given.in.tasks[1].stories
       IN  /\ answer.out.count = (IF Counted(h) = {} THEN 0 ELSE 1)
           /\ \A j \in 1..Len(answer.out.tasks) :
                \E k \in Counted(h) :
                  answer.out.tasks[j].changedAt = h[k].created_at

\* A history of a comment that carries a removed due date and an entry that
\* is marked: each of the tools counts the second entry alone.
C24_Witness ==
  /\ answer.tool \in {"get_task_due_date_changes", "get_most_postponed_tasks",
                      "get_recent_due_date_changes"}
  /\ LET h == IF answer.tool = "get_task_due_date_changes"
              THEN given.in.stories ELSE given.in.tasks[1].stories
     IN  /\ Len(h) = 2
         /\ h[1].resource_subtype = "comment_added"
         /\ h[1].old_due_on = "2024-01-01"
         /\ h[1].new_due_on = NoDate
         /\ Marked(h[2])
  /\ answer.tool = "get_task_due_date_changes" => answer.out.changeCount = 1
  /\ answer.tool = "get_most_postponed_tasks"
       => answer.out.result[1].postponeCount = 1
  /\ answer.tool = "get_recent_due_date_changes" => answer.out.count = 1

\* The entries of the history of a fetched task that the scan for recent
\* changes goes by: due-date changes created at or after the cutoff, the
\* instant days calendar days before the clock.
Qualifying(v, i) ==
  {j \in 1..Len(v.tasks[i].stories) :
     /\ GetTime(v.tasks[i].stories[j].created_at) >= v.today - v.days * DayLen
     /\ IsDueDateChange(v.tasks[i].stories[j])}

\* C26: get_recent_due_date_changes reports a fetched task if and only if
\* the fetch of its history succeeded and the history has a due-date change
\* created at or after the cutoff; it reports it once, with the timestamp of
\* such an entry, and lists the tasks in descending order of that timestamp.
C26_RecentSinceCutoff ==
  Answered("get_recent_due_date_changes") =>
    LET v == given.in
        r == answer.out.tasks
    IN  /\ \A i \in 1..Len(v.tasks) :
             (\E j \in 1..Len(r) : r[j].task = i)
               <=> (~v.tasks[i].fails /\ Qualifying(v, i) # {})
        /\ \A j, k \in 1..Len(r) : j # k => r[j].task # r[k].task
        /\ \A j \in 1..Len(r) :
             \E k \in Qualifying(v, r[j].task) :
               r[j].changedAt = v.tasks[r[j].task].stories[k].created_at
        /\ \A j, k \in 1..Len(r) :
             j < k => GetTime(r[j].changedAt) >= GetTime(r[k].changedAt)
        /\ answer.out.count = Len(r)

\* With a look-back of a day: a task whose history has an entry from before
\* the cutoff and one after it, and a second task changed later, which comes
\* out first.
C26_Witness ==
  /\ Answered("get_recent_due_date_changes")
  /\ given.in.days = 1
  /\ Len(given.in.tasks) = 2
  /\ Len(given.in.tasks[1].stories) = 2
  /\ GetTime(given.in.tasks[1].stories[1].created_at)
       < given.in.today - DayLen
  /\ Len(answer.out.tasks) = 2
  /\ answer.out.tasks[1].task = 2
  /\ GetTime(answer.out.tasks[1].changedAt)
       > GetTime(answer.out.tasks[2].changedAt)

\* C29: the change each tool shows as the latest of a task is the most
\* recent: changedAt of get_recent_due_date_changes is the greatest
\* timestamp among the qualifying entries of the task, and lastChange of
\* get_most_postponed_tasks the greatest among its due-date changes,
\* in whatever order the history came.
C29_LatestChangeIsMostRecent ==
  /\ Answered("get_recent_due_date_changes") =>
       LET v == given.in
           r == answer.out.tasks
       IN  \A j \in 1..Len(r) :
             \A k \in Qualifying(v, r[j].task) :
               GetTime(r[j].changedAt)
                 >= GetTime(v.tasks[r[j].task].stories[k].created_at)
  /\ Answered("get_most_postponed_tasks") =>
       LET v == given.in
           r == answer.out
       IN  \A j \in 1..Len(r.result) :
             LET h == v.tasks[r.tasks[j]].stories
             IN  \A k \in 1..Len(h) :
                   IsDueDateChange(h[k])
                     => GetTime(r.result[j].lastChange)
                          >= GetTime(h[k].created_at)

\* The tasks of all sections, by section and place, and the completed ones.
TasksOfSections(sections) ==
  {p \in (1..Len(sections)) \X (1..MaxTasks) : p[2] <= Len(sections[p[1]])}
CompletedOfSections(sections) ==
  {p \in TasksOfSections(sections) : sections[p[1]][p[2]]}

\* rate is completed / all * 100 rounded to the nearest integer, 0 for none.
IsRate(rate, completed, all) ==
  IF all = 0 THEN rate = 0
  ELSE /\ 2 * rate * all <= 200 * completed + all
       /\ 2 * rate * all > 200 * completed - all

\* C25: get_project_status reports as totalTasks and completedTasks the
\* numbers of tasks and of completed tasks of all sections together,
\* incompleteTasks as their difference for the project and for each
\* section, every completion rate as completed / total * 100 rounded (0 for
\* a total of 0), sectionCount as the number of sections, and every section
\* once, in descending order of its incomplete tasks.
C25_ProjectTotals ==
  (Answered("get_project_status") /\ "sections" \in DOMAIN given.in) =>
    LET sections == given.in.sections
        r == answer.out
    IN  /\ r.totalTasks = Cardinality(TasksOfSections(sections))
        /\ r.completedTasks = Cardinality(CompletedOfSections(sections))
        /\ r.incompleteTasks = r.totalTasks - r.completedTasks
        /\ IsRate(r.completionRate, r.completedTasks, r.totalTasks)
        /\ r.sectionCount = Len(sections)
        /\ Len(r.sections) = Len(sections)
        /\ \A i \in 1..Len(sections) :
             \E j \in 1..Len(r.sections) : r.sections[j].section = i
        /\ \A j \in 1..Len(r.sections) :
             LET e == r.sections[j]
                 tasks == sections[e.section]
             IN  /\ e.totalTasks = Len(tasks)
                 /\ e.completedTasks
                      = Cardinality({k \in 1..Len(tasks) : tasks[k]})
                 /\ e.incompleteTasks = e.totalTasks - e.completedTasks
                 /\ IsRate(e.completionRate, e.completedTasks, e.totalTasks)
        /\ \A j, k \in 1..Len(r.sections) :
             j < k => r.sections[j].incompleteTasks
                        >= r.sections[k].incompleteTasks

\* A finished section of two tasks before a section with one open task:
\* two of three tasks are completed, 67 percent, and the second section
\* comes first.
C25_Witness ==
  /\ Answered("get_project_status")
  /\ "sections" \in DOMAIN given.in
  /\ given.in.sections = <<<<TRUE, TRUE>>, <<FALSE>>>>
  /\ answer.out.totalTasks = 3
  /\ answer.out.completedTasks = 2
  /\ answer.out.completionRate = 67
  /\ answer.out.sections[1].section = 2
  /\ answer.out.sections[1].incompleteTasks = 1

C28_ResetWithinOneWindow ==
  /\ [](resetTime <= now + Window)
  /\ [][resetTime' >= resetTime]_vars
  /\ [][\A c \in Callers :
          (pc[c] # "suspended" /\ pc'[c] = "suspended")
          => /\ deadline'[c] > now
             /\ deadline'[c] <= now + Window
             /\ chk[c].path # "wait"]_vars
  /\ [](\A c \in Callers : pc[c] = "suspended" => deadline[c] <= resetTime)

\* A caller suspended for a whole window, beside one that has resumed from
\* its one suspension.
C28_Witness ==
  \E c, d \in Callers :
    /\ pc[c] = "suspended"
    /\ deadline[c] = now + Window
    /\ pc[d] = "body"
    /\ chk[d].path = "wait"

====
